---- MODULE Spec2Model ----
(***************************************************************************)
(* Model of src/app.py, the Streamlit flight dashboard.                    *)
(*                                                                         *)
(* The script is re-executed top to bottom on every user interaction.     *)
(* One pass is one action: it reads flights.csv through the st.cache_data  *)
(* cache, resolves the column roles by keyword search, coerces the         *)
(* numeric columns, filters by the airline multiselect, renders the KPIs,  *)
(* one chart and the insights.                                             *)
(*                                                                         *)
(* Text is a sequence of one-character strings, so that strip(), lower()   *)
(* and the substring test `word in col` are computed character by          *)
(* character.  A cell of a DataFrame is a tagged record: Num(n), Str(s) or *)
(* NaN.                                                                    *)
(***************************************************************************)
EXTENDS Integers, Sequences, FiniteSets, TLC

VARIABLES
    csv,        \* flights.csv: [header: raw column names, rows: text cells]
    cache,      \* st.cache_data entry of load_data(): NotLoaded or a frame
    airlines,   \* session value of the "Select Airline" multiselect
    option,     \* session value of the "Choose Analysis" selectbox
    page        \* what the last script pass rendered

vars == <<csv, cache, airlines, option, page>>

-----------------------------------------------------------------------------
(* Bounds of the model *)

MaxCols == 2      \* columns of a file whose header is drawn from HeaderPool
MaxRows == 2      \* rows of a file with one of the two-column Layouts

-----------------------------------------------------------------------------
(* Text *)

UpperChars == <<"A","B","C","D","E","F","G","H","I","J","K","L","M",
                "N","O","P","Q","R","S","T","U","V","W","X","Y","Z">>
LowerChars == <<"a","b","c","d","e","f","g","h","i","j","k","l","m",
                "n","o","p","q","r","s","t","u","v","w","x","y","z">>
Whitespace == {" ", "\t"}

\* str.lower() on one character
lower_ch(c) ==
    IF \E i \in 1..26 : UpperChars[i] = c
    THEN LowerChars[CHOOSE i \in 1..26 : UpperChars[i] = c]
    ELSE c

\* Series.str.lower()
str_lower(s) == [i \in 1..Len(s) |-> lower_ch(s[i])]

\* Series.str.strip(): drop leading and trailing whitespace
RECURSIVE str_lstrip(_)
str_lstrip(s) ==
    IF s # <<>> /\ Head(s) \in Whitespace THEN str_lstrip(Tail(s)) ELSE s

RECURSIVE str_rstrip(_)
str_rstrip(s) ==
    IF s # <<>> /\ s[Len(s)] \in Whitespace
    THEN str_rstrip(SubSeq(s, 1, Len(s) - 1))
    ELSE s

str_strip(s) == str_rstrip(str_lstrip(s))

\* Python's `word in col` on two strings
str_contains(col, word) ==
    \E i \in 0..(Len(col) - Len(word)) : \A k \in 1..Len(word) : col[i + k] = word[k]

-----------------------------------------------------------------------------
(* Cells *)

Num(n) == [t |-> "num", v |-> n]
Str(s) == [t |-> "str", v |-> s]
NaN    == [t |-> "nan", v |-> 0]

None == <<"None">>          \* Python None, where a column name is expected
NotLoaded == [columns |-> <<>>, data |-> <<>>, loaded |-> FALSE]

\* The text cells of the modelled files; "" is an empty CSV field
Tokens == {"", "AA", "DL", "-1", "2"}

\* The tokens that parse as a number, with their value
NumberOf == ("-1" :> -1) @@ ("2" :> 2)
IsNumeric(tok) == tok \in DOMAIN NumberOf

\* Python's order on the str cells ("-" < "2" < "A")
StrRank == ("-1" :> 1) @@ ("2" :> 2) @@ ("AA" :> 3) @@ ("DL" :> 4)

-----------------------------------------------------------------------------
(* Column names of the modelled files, as written in the CSV header *)

H_carrier   == <<" ","C","a","r","r","i","e","r">>
H_airline   == <<"a","i","r","l","i","n","e">>
H_arr_delay == <<"A","R","R","_","D","E","L","A","Y">>
H_dep_delay == <<"d","e","p","_","d","e","l","a","y">>
H_origin    == <<"O","r","i","g","i","n">>
H_month     == <<"M","O","N","T","H"," ">>
H_cancelled == <<"c","a","n","c","e","l","l","e","d">>

HeaderPool == {H_carrier, H_airline, H_arr_delay, H_dep_delay,
               H_origin, H_month, H_cancelled}

\* Two-column headers whose rows are enumerated in full, each column with
\* the fields it takes
Layouts ==
    {<<[name |-> H_airline, fields |-> {"", "AA", "DL"}],
       [name |-> H_arr_delay, fields |-> {"", "-1", "2"}]>>,
     <<[name |-> H_dep_delay, fields |-> {"", "-1", "2"}],
       [name |-> H_arr_delay, fields |-> {"", "-1", "2"}]>>}

\* The cell every field of the single row of a pool-header file holds
Fills == {"AA", "2"}

Min(a, b) == IF a < b THEN a ELSE b

\* Sequences over S of length 1..n without repetition (pandas renames a
\* repeated header, so the names of one file differ)
InjSeqs(S, n) ==
    UNION {{q \in [1..k -> S] : \A i, j \in 1..k : q[i] = q[j] => i = j} : k \in 1..n}

RowsOver(layout, n) ==
    LET row == {r \in [1..Len(layout) -> Tokens] :
                    \A j \in 1..Len(layout) : r[j] \in layout[j].fields}
    IN  UNION {[1..k -> row] : k \in 0..n}

\* Files with a header of up to MaxCols pool names and at most one row
WideFiles ==
    {[header |-> h, rows |-> r] :
        h \in InjSeqs(HeaderPool, MaxCols),
        r \in {<<>>} \cup {<<f>> : f \in Fills}}

WideFile(f) ==
    [header |-> f.header,
     rows |-> [i \in 1..Len(f.rows) |-> [j \in 1..Len(f.header) |-> f.rows[i]]]]

\* Files with one of the Layouts and every combination of up to MaxRows rows
DeepFiles ==
    UNION {{[header |-> [j \in 1..Len(l) |-> l[j].name], rows |-> r] :
                r \in RowsOver(l, MaxRows)} : l \in Layouts}

Files == {WideFile(f) : f \in WideFiles} \cup DeepFiles

-----------------------------------------------------------------------------
(* Frames: [columns: names, data: rows of cells, loaded: TRUE] *)

\* pd.read_csv: a column whose non-empty fields all parse as numbers is
\* numeric, any other column keeps its text; an empty field is NaN
read_csv(file) ==
    LET n == Len(file.rows)
        numeric(j) == \A i \in 1..n : file.rows[i][j] = "" \/ IsNumeric(file.rows[i][j])
        cell(i, j) ==
            LET tok == file.rows[i][j] IN
            IF tok = "" THEN NaN
            ELSE IF numeric(j) THEN Num(NumberOf[tok])
            ELSE Str(tok)
    IN  [columns |-> file.header,
         data |-> [i \in 1..n |-> [j \in 1..Len(file.header) |-> cell(i, j)]],
         loaded |-> TRUE]

\* load_data(): read_csv, then strip and lower-case the column names
load_data(file) ==
    LET df == read_csv(file) IN
    [df EXCEPT !.columns = [j \in 1..Len(df.columns) |-> str_lower(str_strip(df.columns[j]))]]

ColIndex(df, column) == CHOOSE j \in 1..Len(df.columns) : df.columns[j] = column

\* df[column]
Column(df, column) == [i \in 1..Len(df.data) |-> df.data[i][ColIndex(df, column)]]

\* Series.dropna()
RECURSIVE dropna(_)
dropna(series) ==
    IF series = <<>> THEN <<>>
    ELSE IF Head(series) = NaN THEN dropna(Tail(series))
    ELSE <<Head(series)>> \o dropna(Tail(series))

-----------------------------------------------------------------------------
(* Smart column detection *)

K_airline == <<<<"a","i","r","l","i","n","e">>, <<"c","a","r","r","i","e","r">>>>
K_arr     == <<<<"a","r","r">>, <<"a","r","r","i","v","a","l">>>>
K_dep     == <<<<"d","e","p">>, <<"d","e","p","a","r","t","u","r","e">>>>
K_origin  == <<<<"o","r","i","g","i","n">>>>
K_month   == <<<<"m","o","n","t","h">>>>
K_cancel  == <<<<"c","a","n","c","e","l">>>>

Roles == {"airline", "arr_delay", "dep_delay", "origin", "month", "cancel"}

Keywords ==
    [r \in Roles |->
        CASE r = "airline"   -> K_airline
          [] r = "arr_delay" -> K_arr
          [] r = "dep_delay" -> K_dep
          [] r = "origin"    -> K_origin
          [] r = "month"     -> K_month
          [] r = "cancel"    -> K_cancel]

\* find_column keeping the keyword loop outside the column loop: the first
\* keyword that any column contains decides
RECURSIVE find_column_by_keyword(_, _)
find_column_by_keyword(columns, keywords) ==
    IF keywords = <<>> THEN None
    ELSE IF \E j \in 1..Len(columns) : str_contains(columns[j], Head(keywords))
    THEN columns[CHOOSE j \in 1..Len(columns) :
                    /\ str_contains(columns[j], Head(keywords))
                    /\ \A k \in 1..(j - 1) : ~str_contains(columns[k], Head(keywords))]
    ELSE find_column_by_keyword(columns, Tail(keywords))

\* find_column: the columns in order, for each the keywords in order, the
\* first column containing a keyword is returned, None after the loop
RECURSIVE find_column(_, _)
find_column(columns, keywords) ==
    IF columns = <<>> THEN None
    ELSE IF \E w \in 1..Len(keywords) : str_contains(Head(columns), keywords[w])
    THEN Head(columns)
    ELSE find_column(Tail(columns), keywords)

\* The six module-level bindings airline_col .. cancel_col
role_bindings(df) == [r \in Roles |-> find_column(df.columns, Keywords[r])]

-----------------------------------------------------------------------------
(* Numeric clean-up *)

\* pd.to_numeric(errors="coerce") on one cell
to_numeric(cell) ==
    CASE cell.t = "num" -> cell
      [] cell.t = "str" -> IF IsNumeric(cell.v) THEN Num(NumberOf[cell.v]) ELSE NaN
      [] OTHER -> NaN

\* clean_numeric(column): df[column] = pd.to_numeric(df[column], errors="coerce")
clean_numeric(df, column) ==
    IF column # None
    THEN LET c == ColIndex(df, column) IN
         [df EXCEPT !.data =
            [i \in 1..Len(df.data) |->
                [j \in 1..Len(df.columns) |->
                    IF j = c THEN to_numeric(df.data[i][j]) ELSE df.data[i][j]]]]
    ELSE df

\* The three calls clean_numeric(arr_delay_col), (dep_delay_col), (cancel_col)
clean_all(df, cols) ==
    clean_numeric(clean_numeric(clean_numeric(df, cols["arr_delay"]),
                                cols["dep_delay"]),
                  cols["cancel"])

-----------------------------------------------------------------------------
(* Series helpers *)

Range(series) == {series[i] : i \in 1..Len(series)}

\* The key Python compares two cells of one column by
SortKey(cell) == IF cell.t = "num" THEN cell.v ELSE StrRank[cell.v]

\* sorted(...) of the distinct cells of one column
RECURSIVE sorted(_)
sorted(cells) ==
    IF cells = {} THEN <<>>
    ELSE LET m == CHOOSE x \in cells : \A y \in cells : SortKey(x) <= SortKey(y)
         IN  <<m>> \o sorted(cells \ {m})

RECURSIVE SumOf(_)
SumOf(series) == IF series = <<>> THEN 0 ELSE Head(series).v + SumOf(Tail(series))

RECURSIVE Gcd(_, _)
Gcd(a, b) == IF b = 0 THEN a ELSE Gcd(b, a % b)

Abs(a) == IF a < 0 THEN -a ELSE a

\* A mean as an exact fraction in lowest terms, or nan
Frac(num, den) ==
    LET g == Gcd(Abs(num), den) IN [k |-> "val", num |-> num \div g, den |-> den \div g]
NanMean == [k |-> "nan", num |-> 0, den |-> 1]

\* Series.mean(skipna=True): nan when no value is left
mean(series) ==
    LET vals == dropna(series) IN
    IF vals = <<>> THEN NanMean ELSE Frac(SumOf(vals), Len(vals))

\* round(a / d) to the nearest integer, a tie to the even one
RoundDiv(a, d) ==
    LET q == a \div d
        r == a - q * d
    IN  IF 2 * r < d THEN q
        ELSE IF 2 * r > d THEN q + 1
        ELSE IF q % 2 = 0 THEN q ELSE q + 1

\* What st.metric is given: round(x * scale, 2), in hundredths; nan stays nan
Shown(v)   == [k |-> "val", v |-> v]
ShownNan   == [k |-> "nan", v |-> 0]
NotShown   == [k |-> "omitted", v |-> 0]
round2(m, scale) ==
    IF m.k = "nan" THEN ShownNan ELSE Shown(RoundDiv(100 * scale * m.num, m.den))

\* The rows of df whose cell in `column` is one of `values`
RowsIsin(df, column, values) ==
    LET c == ColIndex(df, column) IN
    [df EXCEPT !.data = SelectSeq(df.data, LAMBDA row : row[c] \in values)]

\* df[[a, b]].dropna(): the rows with both cells present
RowsBoth(df, a, b) ==
    LET ca == ColIndex(df, a)
        cb == ColIndex(df, b)
    IN  SelectSeq(df.data, LAMBDA row : row[ca] # NaN /\ row[cb] # NaN)

\* rows.groupby(key)[val].mean(): one entry per distinct non-missing key, in
\* key order; the mean skips missing values and is nan when none is left
groupby_mean(rows, ck, cv) ==
    LET keys == sorted({rows[i][ck] : i \in 1..Len(rows)} \ {NaN})
        vals(key) == LET g == SelectSeq(rows, LAMBDA row : row[ck] = key)
                     IN  [i \in 1..Len(g) |-> g[i][cv]]
    IN  [n \in 1..Len(keys) |-> [key |-> keys[n], mean |-> mean(vals(keys[n]))]]

MeanLess(a, b) == a.num * b.den < b.num * a.den

\* Series.idxmin() / idxmax(): the first label holding the extreme value
idxmin(perf) ==
    perf[CHOOSE n \in 1..Len(perf) :
            /\ \A m \in 1..Len(perf) : ~MeanLess(perf[m].mean, perf[n].mean)
            /\ \A m \in 1..(n - 1) : MeanLess(perf[n].mean, perf[m].mean)].key
idxmax(perf) ==
    perf[CHOOSE n \in 1..Len(perf) :
            /\ \A m \in 1..Len(perf) : ~MeanLess(perf[n].mean, perf[m].mean)
            /\ \A m \in 1..(n - 1) : MeanLess(perf[m].mean, perf[n].mean)].key

\* Series.value_counts() as a set of [value, count]
value_counts(series) ==
    {[value |-> x, count |-> Cardinality({i \in 1..Len(series) : series[i] = x})] :
        x \in Range(series) \ {NaN}}

-----------------------------------------------------------------------------
(* One pass of the script *)

SampleSize == 2000
TopN == 10

AnalysisOptions == <<"Airline Delay Comparison", "Monthly Delay Trend",
                     "Top 10 Busiest Airports", "Delay Distribution",
                     "Departure vs Arrival Delay">>

NoLabel == [t |-> "none", v |-> 0]
NoChart == [kind |-> "none", data |-> <<>>]
NoPerf  == [kind |-> "none", best |-> NoLabel, worst |-> NoLabel]

\* st.sidebar.multiselect(label, options, default=options): the session's
\* value once the user has set one, the default before
multiselect(session, options) ==
    IF session.set THEN session.value ELSE Range(options)

\* Lines 31-62: bindings, clean-up, the multiselect and the row filter
Sidebar(df0, session) ==
    LET cols    == role_bindings(df0)
        cleaned == clean_all(df0, cols)
        shown   == cols["airline"] # None
        options == IF shown
                   THEN sorted(Range(dropna(Column(cleaned, cols["airline"]))))
                   ELSE <<>>
        picked  == IF shown THEN multiselect(session, options) ELSE {}
    IN  [cols |-> cols, cleaned |-> cleaned, widget |-> shown,
         options |-> options, picked |-> picked,
         df |-> IF shown THEN RowsIsin(cleaned, cols["airline"], picked) ELSE cleaned]

\* Lines 72-90: a KPI is rendered whenever its column is bound
Kpi(df, column, scale) ==
    IF column # None THEN round2(mean(Column(df, column)), scale) ELSE NotShown

\* df.sample(min(2000, len(df))): any choice of that many rows
Samples(df) ==
    {S \in SUBSET (1..Len(df.data)) : Cardinality(S) = Min(SampleSize, Len(df.data))}

\* value_counts().head(10): the ten most frequent values, ties in any order
Tops(df, column) ==
    IF column = None THEN {{}}
    ELSE LET counts == value_counts(Column(df, column)) IN
         {T \in SUBSET counts :
            /\ Cardinality(T) = Min(TopN, Cardinality(counts))
            /\ \A a \in T, b \in counts \ T : a.count >= b.count}

\* value_counts().idxmax(): a most frequent value
Busiest(df, column) ==
    IF column = None THEN {NoLabel}
    ELSE LET counts == value_counts(Column(df, column)) IN
         IF counts = {} THEN {NoLabel}
         ELSE {a.value : a \in {a \in counts : \A b \in counts : a.count >= b.count}}

\* reset_index() of a grouped series named like its index raises ValueError
GroupedChart(df, kind, key, val) ==
    IF key = val
    THEN [kind |-> "ValueError", data |-> <<>>]
    ELSE [kind |-> kind,
          data |-> groupby_mean(df.data, ColIndex(df, key), ColIndex(df, val))]

\* Lines 111-152: the if/elif chain on the chosen analysis
Chart(df, cols, opt, S, T) ==
    LET has(r) == cols[r] # None IN
    IF opt = "Airline Delay Comparison" /\ has("airline") /\ has("arr_delay")
    THEN GroupedChart(df, "bar", cols["airline"], cols["arr_delay"])
    ELSE IF opt = "Monthly Delay Trend" /\ has("month") /\ has("arr_delay")
    THEN GroupedChart(df, "line", cols["month"], cols["arr_delay"])
    ELSE IF opt = "Top 10 Busiest Airports" /\ has("origin")
    THEN [kind |-> "top10", data |-> T]
    ELSE IF opt = "Delay Distribution" /\ has("arr_delay")
    THEN [kind |-> "histogram", data |-> Column(df, cols["arr_delay"])]
    ELSE IF opt = "Departure vs Arrival Delay" /\ has("arr_delay") /\ has("dep_delay")
    THEN [kind |-> "scatter", data |-> S]
    ELSE [kind |-> "warning", data |-> <<>>]

\* Lines 166-182: best and worst airline.  Selecting the same label twice
\* gives a frame with two columns of that name, which groupby refuses
Performance(df, cols) ==
    IF cols["airline"] # None /\ cols["arr_delay"] # None
    THEN LET valid_data == RowsBoth(df, cols["airline"], cols["arr_delay"]) IN
         IF valid_data # <<>>
         THEN IF cols["airline"] = cols["arr_delay"]
              THEN [kind |-> "ValueError", best |-> NoLabel, worst |-> NoLabel]
              ELSE LET performance ==
                         groupby_mean(valid_data, ColIndex(df, cols["airline"]),
                                      ColIndex(df, cols["arr_delay"]))
                   IN  IF performance # <<>>
                       THEN [kind |-> "best_worst", best |-> idxmin(performance),
                             worst |-> idxmax(performance)]
                       ELSE [kind |-> "warn_not_enough", best |-> NoLabel,
                             worst |-> NoLabel]
         ELSE [kind |-> "warn_missing", best |-> NoLabel, worst |-> NoLabel]
    ELSE NoPerf

\* Lines 193-198: share of the present arrival delays that are <= 0
OnTime(df, column) ==
    IF column = None THEN NotShown
    ELSE LET valid_arr == dropna(Column(df, column)) IN
         IF valid_arr = <<>> THEN NotShown
         ELSE Shown(RoundDiv(10000 * Len(SelectSeq(valid_arr, LAMBDA c : c.v <= 0)),
                             Len(valid_arr)))

BlankPage ==
    [rendered |-> FALSE, error |-> "none", cols |-> [r \in Roles |-> None],
     cleaned |-> NotLoaded, widget |-> FALSE, options |-> <<>>, df |-> NotLoaded,
     total |-> 0, kpi_dep |-> NotShown, kpi_arr |-> NotShown, kpi_cancel |-> NotShown,
     chart |-> NoChart, perf |-> NoPerf, busiest |-> NoLabel, on_time |-> NotShown]

\* The whole pass: an uncaught exception ends it, what was rendered stays
Script(side, opt, S, T, b) ==
    LET df    == side.df
        cols  == side.cols
        chart == Chart(df, cols, opt, S, T)
        perf  == Performance(df, cols)
        upToKpis ==
            [BlankPage EXCEPT
                !.rendered = TRUE, !.cols = cols, !.cleaned = side.cleaned,
                !.widget = side.widget, !.options = side.options, !.df = df,
                !.total = Len(df.data),
                !.kpi_dep = Kpi(df, cols["dep_delay"], 1),
                !.kpi_arr = Kpi(df, cols["arr_delay"], 1),
                !.kpi_cancel = Kpi(df, cols["cancel"], 100)]
    IN  IF chart.kind = "ValueError"
        THEN [upToKpis EXCEPT !.error = "ValueError"]
        ELSE IF perf.kind = "ValueError"
        THEN [upToKpis EXCEPT !.chart = chart, !.error = "ValueError"]
        ELSE [upToKpis EXCEPT !.chart = chart, !.perf = perf, !.busiest = b,
                              !.on_time = OnTime(df, cols["arr_delay"])]

-----------------------------------------------------------------------------
(* The cache and the session *)

\* A cache that hands out the stored object itself
cache_shared(loaded, mutated) == mutated

\* @st.cache_data: the cache keeps its own (pickled) copy of what load_data
\* returned, every caller works on a fresh copy, so what the pass does to its
\* frame does not reach the cache
cache_data(loaded, mutated) == loaded

Rerun(session, opt) ==
    LET df0  == IF cache.loaded THEN cache ELSE load_data(csv)
        side == Sidebar(df0, session)
    IN  /\ \E S \in Samples(side.df), T \in Tops(side.df, side.cols["origin"]),
              b \in Busiest(side.df, side.cols["origin"]) :
                page' = Script(side, opt, S, T, b)
        /\ cache' = cache_data(df0, side.cleaned)
        /\ airlines' = IF side.widget THEN [set |-> TRUE, value |-> side.picked]
                       ELSE session
        /\ option' = opt
        /\ csv' = csv

\* The browser opens the page: first pass, widgets at their defaults
OpenPage ==
    /\ ~page.rendered
    /\ Rerun(airlines, option)

\* The user changes the airline multiselect
SelectAirlines(sel) ==
    /\ page.rendered /\ page.widget
    /\ sel \subseteq Range(page.options)
    /\ sel # airlines.value
    /\ Rerun([set |-> TRUE, value |-> sel], option)

\* The user picks another analysis
ChooseAnalysis(opt) ==
    /\ page.rendered
    /\ opt # option
    /\ Rerun(airlines, opt)

\* Before the first pass: nothing cached, no widget touched, nothing rendered
FreshSession ==
    /\ cache = NotLoaded
    /\ airlines = [set |-> FALSE, value |-> {}]
    /\ option = AnalysisOptions[1]
    /\ page = BlankPage

Init == csv \in Files /\ FreshSession

\* The files whose columns carry the plain role names
InitLayout == csv \in DeepFiles /\ FreshSession

Next ==
    \/ OpenPage
    \/ \E sel \in SUBSET Range(page.options) : SelectAirlines(sel)
    \/ \E opt \in Range(AnalysisOptions) : ChooseAnalysis(opt)

Spec == Init /\ [][Next]_vars

LayoutSpec == InitLayout /\ [][Next]_vars

-----------------------------------------------------------------------------
(* Properties *)

\* Stated apart from the scan of str_contains: word is a slice of col
IsSubstring(word, col) ==
    \E pre \in 0..Len(col) :
        /\ pre + Len(word) <= Len(col)
        /\ SubSeq(col, pre + 1, pre + Len(word)) = word

HasKeyword(col, r) == \E w \in 1..Len(Keywords[r]) : IsSubstring(Keywords[r][w], col)

\* name is raw without its leading and trailing whitespace, in lower case
NormalizedFrom(raw, name) ==
    \E a, b \in 0..Len(raw) :
        /\ a + b <= Len(raw)
        /\ Len(name) = Len(raw) - a - b
        /\ \A i \in 1..a : raw[i] \in Whitespace
        /\ \A i \in (Len(raw) - b + 1)..Len(raw) : raw[i] \in Whitespace
        /\ name # <<>> => (name[1] \notin Whitespace /\ name[Len(name)] \notin Whitespace)
        /\ \A i \in 1..Len(name) : name[i] = lower_ch(raw[a + i])

\* The positions of the loaded table's columns that match role r
Matching(r) == {j \in 1..Len(cache.columns) : HasKeyword(cache.columns[j], r)}

Bound(r) == page.cols[r] # None

\* The rows of the filtered table with both cells present
Complete(a, b) == RowsBoth(page.df, page.cols[a], page.cols[b])

\* C1: every role is bound to the first column, in the loaded table's column
\* order, whose trimmed lower-case name contains one of the role's keywords,
\* and to None when no column does.  Only the column names enter the
\* statement, so the binding is the same whatever the rows hold.
C1_FirstMatchingColumn ==
    page.rendered =>
        /\ Len(cache.columns) = Len(csv.header)
        /\ \A j \in 1..Len(csv.header) : NormalizedFrom(csv.header[j], cache.columns[j])
        /\ \A r \in Roles :
            IF Matching(r) = {}
            THEN page.cols[r] = None
            ELSE page.cols[r] =
                    cache.columns[CHOOSE j \in Matching(r) : \A k \in Matching(r) : j <= k]

\* Two columns match the airline role, the first through the second keyword
\* and the second through the first keyword; the first column is bound, and
\* a role without a matching column is None, on a file with a row
C1_Witness ==
    /\ page.rendered
    /\ Len(cache.columns) = 2
    /\ Len(cache.data) = 1
    /\ IsSubstring(K_airline[2], cache.columns[1])
    /\ IsSubstring(K_airline[1], cache.columns[2])
    /\ page.cols["airline"] = cache.columns[1]
    /\ page.cols["month"] = None

\* C10: no column is bound to two roles
C10_RolesBindDistinctColumns ==
    page.rendered =>
        \A r1, r2 \in Roles :
            (r1 # r2 /\ Bound(r1)) => page.cols[r1] # page.cols[r2]

\* C2: with the airline role bound and every offered airline selected, the
\* filter returns every row of the loaded table and Total Flights is the
\* loaded row count
C2_FullSelectionKeepsEveryRow ==
    (page.rendered /\ page.widget /\ airlines.value = Range(page.options)) =>
        /\ Len(page.df.data) = Len(cache.data)
        /\ page.df.data = page.cleaned.data
        /\ page.total = Len(cache.data)

\* C3: the airlines offered are exactly the distinct non-missing values of
\* the airline column of the loaded table, and the selection is among them
C3_OptionsAreLoadedAirlines ==
    (page.rendered /\ page.widget) =>
        /\ Range(page.options) = Range(dropna(Column(cache, page.cols["airline"])))
        /\ airlines.value \subseteq Range(page.options)

\* C4: the columns bound to airline, origin_airport and month hold after the
\* numeric clean-up the values they held as loaded
C4_NonNumericRolesUntouched ==
    page.rendered =>
        \A r \in {"airline", "origin", "month"} :
            Bound(r) => Column(page.cleaned, page.cols[r]) = Column(cache, page.cols[r])

KpiOf(r) ==
    CASE r = "dep_delay" -> page.kpi_dep
      [] r = "arr_delay" -> page.kpi_arr
      [] r = "cancel"    -> page.kpi_cancel

\* C5: a KPI whose bound column has no value left after filtering is not
\* shown as a number (it is left out), no exception ends the pass, and Total
\* Flights is the filtered row count
C5_EmptyKpiLeftOut ==
    page.rendered =>
        \A r \in {"dep_delay", "arr_delay", "cancel"} :
            (Bound(r) /\ dropna(Column(page.df, page.cols[r])) = <<>>) =>
                /\ KpiOf(r) = NotShown
                /\ page.error = "none"
                /\ page.total = Len(page.df.data)

\* The mean arrival delay of the complete rows of one airline
AirlineMean(key) ==
    LET ca == ColIndex(page.df, page.cols["airline"])
        cv == ColIndex(page.df, page.cols["arr_delay"])
        g  == SelectSeq(Complete("airline", "arr_delay"), LAMBDA row : row[ca] = key)
    IN  mean([i \in 1..Len(g) |-> g[i][cv]])

AirlinesWithDelay ==
    LET ca == ColIndex(page.df, page.cols["airline"])
        rows == Complete("airline", "arr_delay")
    IN  {rows[i][ca] : i \in 1..Len(rows)}

\* C6: with airline and arrival_delay bound, the best airline is one of
\* least mean arrival delay and the worst one of greatest, over the filtered
\* rows with both values present; without such a row a warning takes their
\* place and no error is raised
C6_BestAndWorstAirline ==
    (page.rendered /\ Bound("airline") /\ Bound("arr_delay")) =>
        IF Complete("airline", "arr_delay") = <<>>
        THEN /\ page.perf.kind \in {"warn_missing", "warn_not_enough"}
             /\ page.perf.best = NoLabel /\ page.perf.worst = NoLabel
             /\ page.error = "none"
        ELSE /\ page.perf.kind = "best_worst"
             /\ page.perf.best \in AirlinesWithDelay
             /\ page.perf.worst \in AirlinesWithDelay
             /\ \A a \in AirlinesWithDelay :
                    /\ ~MeanLess(AirlineMean(a), AirlineMean(page.perf.best))
                    /\ ~MeanLess(AirlineMean(page.perf.worst), AirlineMean(a))

\* C7: the grouped table behind the airline and the month chart is computed
\* from the rows with both the grouping value and the arrival delay present:
\* every entry is the mean of at least one present delay, and no group
\* appears whose delays are all missing
C7_GroupsHaveADelay ==
    (page.rendered /\ page.chart.kind \in {"bar", "line"}) =>
        LET by == IF page.chart.kind = "bar" THEN "airline" ELSE "month" IN
        /\ page.chart.data =
              groupby_mean(Complete(by, "arr_delay"),
                           ColIndex(page.df, page.cols[by]),
                           ColIndex(page.df, page.cols["arr_delay"]))
        /\ \A n \in 1..Len(page.chart.data) :
              /\ page.chart.data[n].key # NaN
              /\ page.chart.data[n].mean.k = "val"

\* C8: the scatter sample holds rows of the filtered table, at most
\* SampleSize of them and all the eligible rows when they are fewer, each
\* with the departure and the arrival delay present
C8_SampleOfCompleteRows ==
    (page.rendered /\ page.chart.kind = "scatter") =>
        /\ page.chart.data \subseteq 1..Len(page.df.data)
        /\ Cardinality(page.chart.data) =
              Min(SampleSize, Len(Complete("dep_delay", "arr_delay")))
        /\ \A i \in page.chart.data :
              /\ Column(page.df, page.cols["dep_delay"])[i] # NaN
              /\ Column(page.df, page.cols["arr_delay"])[i] # NaN

\* C9: whatever passes came before, the cached table is the table as loaded
\* and the page is the one a pass over that table renders for the current
\* selection and analysis option
C9_PassDependsOnlySelectionAndOption ==
    page.rendered =>
        LET loaded == load_data(csv)
            fresh  == Sidebar(loaded, airlines)
        IN  /\ cache = loaded
            /\ page.df = fresh.df
            /\ page.options = fresh.options
            /\ \E S \in Samples(fresh.df), T \in Tops(fresh.df, fresh.cols["origin"]),
                  b \in Busiest(fresh.df, fresh.cols["origin"]) :
                    page = Script(fresh, option, S, T, b)

\* After several passes: the user has deselected an airline and moved to
\* another analysis, the clean-up of the pass coerced a cell of its copy and
\* the filter dropped a row, and the cache still holds the loaded table
C9_Witness ==
    /\ page.rendered
    /\ option = AnalysisOptions[4]
    /\ page.widget /\ airlines.value # Range(page.options)
    /\ page.cleaned # cache
    /\ Len(page.df.data) < Len(cache.data)
    /\ cache = load_data(csv)

====
